---- MODULE Spec2Model ----
(***************************************************************************)
(* Model of kitty/graphics.c: the receiving side of the terminal image     *)
(* transmission protocol (GraphicsManager, its image store and the         *)
(* handle_add_command state machine).                                      *)
(*                                                                         *)
(* Pointers are modelled as addresses (naturals, NULL == 0).  The process  *)
(* heap, the live memory mappings and the open file descriptors are part   *)
(* of the state, so that a pointer to released memory is visible as an     *)
(* address that is in no live set.  The bytes a buffer or a mapping holds  *)
(* are kept next to the pointer in the record (buf_bytes, map_bytes).      *)
(***************************************************************************)
EXTENDS Integers, Sequences, FiniteSets, TLC

VARIABLES
    images,              \* self->images[0 .. image_count-1], as a sequence
    images_capacity,     \* self->images_capacity
    loading_image,       \* self->loading_image
    internal_id_counter, \* static size_t internal_id_counter
    heap,                \* addresses of the live malloc'ed blocks
    maps,                \* addresses of the live mmap'ed regions
    open_fds,            \* descriptors opened by open()/shm_open() and not closed
    report,              \* what the last command wrote with REPORT_ERROR ("" if nothing)
    last,                \* the branch the last command took and the record it worked on
    transfer             \* the chunked transmission under way (SpecChunks only)

vars == <<images, images_capacity, loading_image, internal_id_counter,
          heap, maps, open_fds, report, last, transfer>>

----------------------------------------------------------------------------
(* Bounds of the model *)

\* at most this many records are ever created (caps internal_id_counter)
MaxInternalId == 2

\* addresses the allocator and mmap can hand out: 1 .. NumAddrs
NumAddrs == 6

\* the highest descriptor open() can return
MaxFd == 5

\* client ids a command can carry: 0 (anonymous) .. MaxClientId
MaxClientId == 1

\* reference counts a collaborator can set: 0 .. MaxRefcnt
MaxRefcnt == 1

----------------------------------------------------------------------------
(* Program constants *)

NULL == 0

\* the zero character of a command field that was not given
NUL == ""

\* enum FORMATS { RGB=24, RGBA=32, PNG=100 }
RGB == 24
RGBA == 32
PNG == 100

\* self->images_capacity = 64
InitialCapacity == 64

\* slack added to the accumulation buffer: 1024 with compression or PNG, else 10
CompressionSlack == 1024
RawSlack == 10

\* descriptors 0, 1, 2 are the standard streams of the process
StdStreams == {0, 1, 2}

----------------------------------------------------------------------------
(* Small helpers *)

Min(S) == CHOOSE x \in S : \A y \in S : x <= y

Rep(b, n) == [i \in 1..n |-> b]

\* F applied to the value of v, which is evaluated once
With(v, F(_)) == CHOOSE y \in {F(x) : x \in {v}} : TRUE

\* calloc(), memset(.., 0, ..): a zeroed LoadData / Image
ZeroLoadData ==
    [buf |-> NULL, buf_bytes |-> <<>>, buf_used |-> 0, buf_capacity |-> 0,
     mapped_file |-> NULL, mapped_file_sz |-> 0, map_bytes |-> <<>>,
     fd |-> 0, data_sz |-> 0, data |-> NULL, is_4byte_aligned |-> FALSE]

ZeroImage ==
    [client_id |-> 0, internal_id |-> 0, width |-> 0, height |-> 0,
     data_loaded |-> FALSE, refcnt |-> 0, load_data |-> ZeroLoadData]

\* The process state the functions of graphics.c read and write; init_img,
\* existing and img record the branch handle_add_command takes and the
\* internal id of the record it works on.
State ==
    [images |-> images, images_capacity |-> images_capacity,
     loading_image |-> loading_image,
     internal_id_counter |-> internal_id_counter,
     heap |-> heap, maps |-> maps, open_fds |-> open_fds,
     report |-> "",
     init_img |-> FALSE, existing |-> FALSE, img |-> 0]

\* the state after grman_realloc(NULL, ..): an empty store of 64 slots
InitialState ==
    [images |-> <<>>, images_capacity |-> InitialCapacity,
     loading_image |-> 0, internal_id_counter |-> 1,
     heap |-> {}, maps |-> {}, open_fds |-> {}, report |-> "",
     init_img |-> FALSE, existing |-> FALSE, img |-> 0]

\* every address some pointer of the state still holds, live or not
AddrsInUse(p) ==
    p.heap \cup p.maps \cup
    UNION {{p.images[i].load_data.buf, p.images[i].load_data.mapped_file,
            p.images[i].load_data.data} : i \in DOMAIN p.images}

\* malloc() / mmap(0, ..): an address no pointer of the state holds, NULL when
\* there is none left
FreshAddr(p) ==
    LET free == (1..NumAddrs) \ AddrsInUse(p)
    IN  IF free = {} THEN NULL ELSE Min(free)

\* open() / shm_open(): the lowest descriptor that is not open, -1 when
\* there is none left.  The standard streams are open, except that the rest
\* of the process may have closed descriptor 0 (stdin_closed).
LowestFd(p, stdin_closed) ==
    LET free == ((0..MaxFd) \ (StdStreams \ (IF stdin_closed THEN {0} ELSE {})))
                \ p.open_fds
    IN  IF free = {} THEN -1 ELSE Min(free)

----------------------------------------------------------------------------
(* free_load_data, free_image *)

free_load_data(p, i) ==
    LET ld == p.images[i].load_data
        ld2 == [ld EXCEPT !.buf = NULL, !.buf_bytes = <<>>, !.buf_used = 0,
                          !.buf_capacity = 0,
                          !.mapped_file = NULL, !.mapped_file_sz = 0,
                          !.map_bytes = <<>>, !.fd = -1]
    IN  [p EXCEPT !.images[i].load_data = ld2,
                  !.heap = p.heap \ {ld.buf},
                  !.maps = IF ld.mapped_file # NULL
                           THEN p.maps \ {ld.mapped_file} ELSE p.maps,
                  !.open_fds = IF ld.fd > 0
                               THEN p.open_fds \ {ld.fd} ELSE p.open_fds]

free_image(p, i) == free_load_data(p, i)

----------------------------------------------------------------------------
(* The growable record array *)

\* ensure_space: the capacity after making room for one more element
ensure_space(capacity, count) ==
    IF count < capacity THEN capacity ELSE capacity * 2

\* remove_from_array: the elements right of idx move left by one
remove_from_array(array, idx, array_count) ==
    [k \in 1..(array_count - 1) |-> IF k < idx THEN array[k] ELSE array[k + 1]]

\* add_trim_predicate without the clause for records that are not loaded
add_trim_predicate_keeps_unloaded(img) ==
    img.client_id = 0 /\ img.refcnt = 0

\* add_trim_predicate without the clause for anonymous records
add_trim_predicate_keeps_anonymous(img) == ~img.data_loaded

\* add_trim_predicate
add_trim_predicate(img) ==
    ~img.data_loaded \/ (img.client_id = 0 /\ img.refcnt = 0)

\* the predicates remove_images is called with: add_trim_predicate, which is
\* the one this file passes, and three that a caller may pass (every record,
\* the records with a client id, no record)
predicate(name, img) ==
    CASE name = "add_trim_predicate" -> add_trim_predicate(img)
      [] name = "always" -> TRUE
      [] name = "has_client_id" -> img.client_id # 0
      [] OTHER -> FALSE

\* the body of the loop of remove_images, for an element the predicate holds of:
\* free_image, remove_from_array, image_count--
remove_image(p, i) ==
    With(free_image(p, i),
         LAMBDA q : [q EXCEPT !.images =
                        remove_from_array(q.images, i, Len(q.images))])

\* remove_images: the loop, from index i (1-based) down to the first element
RECURSIVE remove_images_from(_, _, _)
remove_images_from(p, name, i) ==
    IF i = 0 THEN p
    ELSE IF predicate(name, p.images[i])
         THEN With(remove_image(p, i),
                   LAMBDA q : remove_images_from(q, name, i - 1))
         ELSE remove_images_from(p, name, i - 1)

remove_images(p, name) == remove_images_from(p, name, Len(p.images))

\* find_or_create_image without the search for the client id
find_or_create_image_never_finds(p, id) ==
    [p |-> [p EXCEPT !.images = Append(p.images, ZeroImage),
                     !.images_capacity =
                         ensure_space(p.images_capacity, Len(p.images))],
     idx |-> Len(p.images) + 1, existing |-> FALSE]

\* ensure_space, the slot at index count of the array it returns.  Below the
\* capacity the array is returned as it is, and the slot is zero (calloc,
\* the memset of remove_from_array).  At the capacity the array is
\* reallocated and the memset of line 83 is applied to the old pointer: if
\* realloc has extended the block in place, the memset zeroes the new half;
\* if realloc has moved the block (moved), the memset writes behind the
\* released block and the new half keeps whatever the allocator left there
\* (garbage)
ensure_space_slot(capacity, count, moved, garbage) ==
    IF count < capacity THEN ZeroImage
    ELSE IF moved THEN garbage ELSE ZeroImage

\* find_or_create_image, given what realloc does if the array has to grow:
\* the state, the index of the record and *existing
find_or_create_image_in(p, id, moved, garbage) ==
    LET found == {i \in DOMAIN p.images : p.images[i].client_id = id}
        count == Len(p.images)
    IN  IF id # 0 /\ found # {}
        THEN [p |-> p, idx |-> Min(found), existing |-> TRUE]
        ELSE [p |-> [p EXCEPT
                       !.images =
                           Append(p.images,
                                  ensure_space_slot(p.images_capacity, count,
                                                    moved, garbage)),
                       !.images_capacity =
                           ensure_space(p.images_capacity, count),
                       !.report =
                           IF count >= p.images_capacity /\ moved
                           THEN "memset outside an allocated block"
                           ELSE p.report],
              idx |-> count + 1, existing |-> FALSE]

\* find_or_create_image on a store below its capacity, where ensure_space
\* returns at line 79 and realloc is not called
find_or_create_image(p, id) ==
    find_or_create_image_in(p, id, FALSE, ZeroImage)

\* img_by_internal_id: the index of the record, 0 for NULL
img_by_internal_id(p, id) ==
    LET found == {i \in DOMAIN p.images : p.images[i].internal_id = id}
    IN  IF found = {} THEN 0 ELSE Min(found)

----------------------------------------------------------------------------
(* The codecs.  zlib and libpng are libraries outside this file: the model  *)
(* gives each a small deterministic stream format.  A zlib stream is the    *)
(* header byte 120 followed by the literal bytes (a stored block); a PNG    *)
(* stream is <<137, width, height, v>> and decodes to width * height RGBA   *)
(* pixels whose bytes are all v.                                            *)

\* inflate(&z, Z_FINISH) into avail_out bytes: Z_STREAM_END only when the
\* whole stream fits the output buffer
zlib_inflate(src, avail_out) ==
    IF Len(src) >= 1 /\ src[1] = 120 /\ Len(src) - 1 <= avail_out
    THEN [stream_end |-> TRUE, out |-> Tail(src),
          avail_out |-> avail_out - (Len(src) - 1)]
    ELSE [stream_end |-> FALSE, out |-> <<>>, avail_out |-> avail_out]

\* png_read_info .. png_read_image: longjmp ("Invalid PNG data") unless the
\* stream is well formed
png_read(src) ==
    IF Len(src) = 4 /\ src[1] = 137 /\ src[2] >= 1 /\ src[3] >= 1
    THEN [ok |-> TRUE, width |-> src[2], height |-> src[3],
          rowbytes |-> 4 * src[2], pixels |-> Rep(src[4], 4 * src[2] * src[3])]
    ELSE [ok |-> FALSE, width |-> 0, height |-> 0, rowbytes |-> 0,
          pixels |-> <<>>]

\* inflate_zlib: the state and the value returned
inflate_zlib(p, i, buf) ==
    LET ld == p.images[i].load_data
        decompressed == FreshAddr(p)
        z == zlib_inflate(buf, ld.data_sz)
    IN  IF decompressed = NULL
        THEN [p |-> [p EXCEPT !.report = "fatal"], ok |-> FALSE]
        ELSE IF ~z.stream_end \/ z.avail_out # 0
        THEN [p |-> [p EXCEPT !.report = "Failed to inflate image data"],
              ok |-> FALSE]
        ELSE With(free_load_data(p, i),
                  LAMBDA q :
                    [p |-> [q EXCEPT
                              !.heap = q.heap \cup {decompressed},
                              !.images[i].load_data.buf_capacity = ld.data_sz,
                              !.images[i].load_data.buf = decompressed,
                              !.images[i].load_data.buf_used =
                                  ld.data_sz - z.avail_out,
                              !.images[i].load_data.buf_bytes = z.out],
                     ok |-> TRUE])

\* inflate_png: the state and the value returned
inflate_png(p, i, buf) ==
    LET png == png_read(buf)
        sz == png.rowbytes * png.height
        decompressed == FreshAddr(p)
    IN  IF ~png.ok
        THEN [p |-> [p EXCEPT !.report = "Invalid PNG data"], ok |-> FALSE]
        ELSE IF decompressed = NULL
        THEN [p |-> [p EXCEPT !.report =
                  "Out of memory allocating decompression buffer for PNG"],
              ok |-> FALSE]
        ELSE With(free_load_data(p, i),
                  LAMBDA q :
                    [p |-> [q EXCEPT
                              !.heap = q.heap \cup {decompressed},
                              !.images[i].load_data.buf_capacity = sz,
                              !.images[i].load_data.buf = decompressed,
                              !.images[i].load_data.buf_used = sz,
                              !.images[i].load_data.buf_bytes = png.pixels,
                              !.images[i].width = png.width,
                              !.images[i].height = png.height],
                     ok |-> TRUE])

\* mmap_img_file: file is the content of the opened file; seek_ok and mmap_ok
\* are what lseek and mmap answer (mmap fails on an empty file)
mmap_img_file(p, i, file, seek_ok, mmap_ok) ==
    LET file_sz == Len(file)
        addr == FreshAddr(p)
    IN  IF ~seek_ok
        THEN [p |-> [p EXCEPT !.report = "Failed to seek in image file"],
              ok |-> FALSE]
        ELSE IF ~mmap_ok \/ file_sz = 0 \/ addr = NULL
        THEN [p |-> [p EXCEPT !.report = "Failed to map image file"],
              ok |-> FALSE]
        ELSE [p |-> [p EXCEPT !.maps = p.maps \cup {addr},
                              !.images[i].load_data.mapped_file = addr,
                              !.images[i].load_data.mapped_file_sz = file_sz,
                              !.images[i].load_data.map_bytes = file],
              ok |-> TRUE]

----------------------------------------------------------------------------
(* handle_add_command.  g is the GraphicsCommand; payload is the byte       *)
(* sequence the command carries (for the file media it names a file, and    *)
(* env says what the system answers: open_ok, seek_ok, mmap_ok, the content *)
(* of the file and whether descriptor 0 is free).                           *)

\* unsigned char tt = g->transmission_type ? g->transmission_type : 'd'
transmission_type(g) ==
    IF g.transmission_type = NUL THEN "d" ELSE g.transmission_type

\* internal_id_counter without the increment
next_internal_id_reused(counter) == counter

\* internal_id_counter++
next_internal_id(counter) == counter + 1

\* if (existing) { free_load_data; data_loaded = false } else { internal_id =
\* internal_id_counter++; client_id = g->id }, for the record
\* find_or_create_image returned (foc)
reset_or_assign(foc, g) ==
    IF foc.existing
    THEN With(free_load_data(foc.p, foc.idx),
              LAMBDA q : [q EXCEPT !.images[foc.idx].data_loaded = FALSE])
    ELSE [foc.p EXCEPT
            !.images[foc.idx].internal_id = foc.p.internal_id_counter,
            !.internal_id_counter = next_internal_id(foc.p.internal_id_counter),
            !.images[foc.idx].client_id = g.id]

\* the accumulation buffer without the slack of line 284
allocate_buffer_without_slack(p, g, i, sz) ==
    LET buf == FreshAddr(p)
    IN  [p |-> [p EXCEPT
                 !.loading_image = IF g.more THEN p.images[i].internal_id
                                   ELSE p.loading_image,
                 !.images[i].load_data.buf_capacity = sz,
                 !.images[i].load_data.buf = buf,
                 !.heap = p.heap \cup {buf},
                 !.images[i].load_data.buf_used = 0,
                 !.images[i].load_data.buf_bytes = <<>>],
         idx |-> i, ret |-> FALSE]

\* the direct medium of a new transmission: loading_image, and the
\* accumulation buffer of the record, sized for sz bytes and the slack
allocate_buffer(p, g, i, sz) ==
    LET buf == FreshAddr(p)
    IN  IF buf = NULL
        THEN [p |-> [p EXCEPT !.report = "fatal"], idx |-> i, ret |-> TRUE]
        ELSE [p |-> [p EXCEPT
                 !.loading_image = IF g.more THEN p.images[i].internal_id
                                   ELSE p.loading_image,
                 !.images[i].load_data.buf_capacity =
                     sz + (IF g.compressed # NUL \/ g.format = PNG
                           THEN CompressionSlack ELSE RawSlack),
                 !.images[i].load_data.buf = buf,
                 !.heap = p.heap \cup {buf},
                 !.images[i].load_data.buf_used = 0,
                 !.images[i].load_data.buf_bytes = <<>>],
              idx |-> i, ret |-> FALSE]

\* the declared size of record i, the format switch and, for the direct
\* medium, the accumulation buffer.  ret says that the function returned.
size_record(p, g, i) ==
    LET wh == g.data_width * g.data_height
        sz == IF g.format = PNG THEN wh * 4 ELSE wh * (g.format \div 8)
        aligned == IF g.format = PNG THEN TRUE
                   ELSE g.format = RGBA \/ g.data_width % 4 = 0
    IN  With([p EXCEPT !.images[i].width = g.data_width,
                       !.images[i].height = g.data_height,
                       !.init_img = TRUE,
                       !.img = p.images[i].internal_id],
             LAMBDA q :
               IF g.format \notin {PNG, RGB, RGBA}
               THEN [p |-> [q EXCEPT !.report = "Unknown image format"],
                     idx |-> i, ret |-> TRUE]
               ELSE With([q EXCEPT
                            !.images[i].load_data.is_4byte_aligned = aligned,
                            !.images[i].load_data.data_sz = sz],
                         LAMBDA q2 :
                           IF transmission_type(g) = "d"
                           THEN allocate_buffer(q2, g, i, sz)
                           ELSE [p |-> q2, idx |-> i, ret |-> FALSE]))

\* the new-transmission branch: sweep, find or create the record, size it
start_transmission(p, g) ==
    With(remove_images(p, "add_trim_predicate"),
         LAMBDA swept :
           With(find_or_create_image(swept, g.id),
                LAMBDA foc :
                  With(reset_or_assign(foc, g),
                       LAMBDA q :
                         size_record([q EXCEPT !.existing = foc.existing],
                                     g, foc.idx))))

\* the continuation branch: the record loading_image names
continue_transmission(p) ==
    LET i == img_by_internal_id(p, p.loading_image)
    IN  IF i = 0
        THEN [p |-> [p EXCEPT !.loading_image = 0,
                 !.report = "More payload loading refers to non-existent image"],
              idx |-> 0, ret |-> TRUE]
        ELSE [p |-> [p EXCEPT !.img = p.images[i].internal_id],
              idx |-> i, ret |-> FALSE]

\* case 'd' without the size check of line 300
acquire_direct_unchecked(p, g, i, payload) ==
    [p |-> [p EXCEPT
              !.images[i].load_data.buf_bytes =
                  p.images[i].load_data.buf_bytes \o payload,
              !.images[i].load_data.buf_used =
                  p.images[i].load_data.buf_used + g.payload_sz,
              !.images[i].data_loaded =
                  IF g.more THEN p.images[i].data_loaded ELSE TRUE,
              !.loading_image = IF g.more THEN p.loading_image ELSE 0],
     ret |-> FALSE]

\* case 'd': the size check and the memcpy into the accumulation buffer
acquire_direct(p, g, i, payload) ==
    LET ld == p.images[i].load_data
    IN  IF g.payload_sz >= ld.buf_capacity - ld.buf_used
        THEN [p |-> [p EXCEPT !.report = "Too much data transmitted"],
              ret |-> TRUE]
        ELSE IF ld.buf = NULL \/ ld.buf \notin p.heap
        THEN [p |-> [p EXCEPT !.report = "memcpy outside an allocated buffer"],
              ret |-> TRUE]
        ELSE [p |-> [p EXCEPT
                !.images[i].load_data.buf_bytes = ld.buf_bytes \o payload,
                !.images[i].load_data.buf_used = ld.buf_used + g.payload_sz,
                !.images[i].data_loaded =
                    IF g.more THEN p.images[i].data_loaded ELSE TRUE,
                !.loading_image = IF g.more THEN p.loading_image ELSE 0],
              ret |-> FALSE]

\* case 'f', 't', 's': open or shm_open, then mmap_img_file
acquire_file(p, i, env) ==
    LET fd == LowestFd(p, env.stdin_closed)
    IN  IF ~env.open_ok \/ fd = -1
        THEN [p |-> [p EXCEPT !.report =
                  "Failed to open file for graphics transmission"],
              ret |-> TRUE]
        ELSE With([p EXCEPT !.open_fds = p.open_fds \cup {fd},
                            !.images[i].load_data.fd = fd],
                  LAMBDA opened :
                    With(mmap_img_file(opened, i, env.file, env.seek_ok,
                                       env.mmap_ok),
                         LAMBDA mapped :
                           [p |-> [mapped.p EXCEPT
                                     !.images[i].data_loaded = mapped.ok],
                            ret |-> FALSE]))

\* switch(tt): the media acquisition of this chunk
acquire(p, g, i, payload, env) ==
    CASE transmission_type(g) = "d" -> acquire_direct(p, g, i, payload)
      [] transmission_type(g) \in {"f", "t", "s"} -> acquire_file(p, i, env)
      [] OTHER -> [p |-> [p EXCEPT !.report = "Unknown transmission type"],
                   ret |-> TRUE]

\* IB: the bytes the decoders read, the buffer if there is one, else the mapping
input_buffer(ld) ==
    IF ld.buf # NULL THEN SubSeq(ld.buf_bytes, 1, ld.buf_used)
    ELSE SubSeq(ld.map_bytes, 1, ld.mapped_file_sz)

\* the end of the needs_processing branch: data = buf, then the size check
promote_buffer(p, i) ==
    LET ld == p.images[i].load_data
    IN  IF ld.buf_used < ld.data_sz
        THEN [p EXCEPT !.images[i].load_data.data = ld.buf,
                       !.report = "Insufficient image data",
                       !.images[i].data_loaded = FALSE]
        ELSE [p EXCEPT !.images[i].load_data.data = ld.buf]

\* switch(g->format) of the needs_processing branch, then the promotion
decode_format(p, g, i) ==
    IF g.format = PNG
    THEN With(inflate_png(p, i, input_buffer(p.images[i].load_data)),
              LAMBDA png :
                IF ~png.ok
                THEN [png.p EXCEPT !.images[i].data_loaded = FALSE]
                ELSE promote_buffer(png.p, i))
    ELSE promote_buffer(p, i)

\* switch(g->compressed) of the needs_processing branch, then the format
decompress(p, g, i) ==
    CASE g.compressed = "z" ->
           With(inflate_zlib(p, i, input_buffer(p.images[i].load_data)),
                LAMBDA z :
                  IF ~z.ok
                  THEN [z.p EXCEPT !.images[i].data_loaded = FALSE]
                  ELSE decode_format(z.p, g, i))
      [] g.compressed = NUL -> decode_format(p, g, i)
      [] OTHER -> [p EXCEPT !.report = "Unknown image compression",
                            !.images[i].data_loaded = FALSE]

\* the branch without compression or PNG, without the size checks
promote_raw_unchecked(p, g, i) ==
    [p EXCEPT !.images[i].load_data.data =
                  IF transmission_type(g) = "d"
                  THEN p.images[i].load_data.buf
                  ELSE p.images[i].load_data.mapped_file]

\* the branch without compression or PNG: the size check and the promotion
promote_raw(p, g, i) ==
    LET ld == p.images[i].load_data
    IN  IF transmission_type(g) = "d"
        THEN IF ld.buf_used < ld.data_sz
             THEN [p EXCEPT !.report = "Insufficient image data",
                            !.images[i].data_loaded = FALSE]
             ELSE [p EXCEPT !.images[i].load_data.data = ld.buf]
        ELSE IF ld.mapped_file_sz < ld.data_sz
             THEN [p EXCEPT !.report = "Insufficient image data",
                            !.images[i].data_loaded = FALSE]
             ELSE [p EXCEPT !.images[i].load_data.data = ld.mapped_file]

\* everything after the media acquisition: decompression, decoding, size check
process(p, g, i) ==
    IF ~p.images[i].data_loaded THEN p
    ELSE IF g.compressed # NUL \/ g.format = PNG THEN decompress(p, g, i)
    ELSE promote_raw(p, g, i)

handle_add_command(p, g, payload, env) ==
    With(IF ~(transmission_type(g) = "d" /\ g.more /\ p.loading_image # 0)
         THEN start_transmission(p, g)
         ELSE continue_transmission(p),
         LAMBDA a :
           IF a.ret THEN a.p
           ELSE With(acquire(a.p, g, a.idx, payload, env),
                     LAMBDA b :
                       IF b.ret THEN b.p ELSE process(b.p, g, a.idx)))

\* grman_handle_command
grman_handle_command(p, g, payload, env) ==
    IF g.action \in {NUL, "t"}
    THEN handle_add_command(p, g, payload, env)
    ELSE [p EXCEPT !.report = "Unknown graphics command action"]

----------------------------------------------------------------------------
(* The commands the model sends *)

ClientIds == 0..MaxClientId

\* what a command says about its payload, and the payload: compression code,
\* pixel format code, declared width and height, bytes
Shape(compressed, format, w, h, payload) ==
    [compressed |-> compressed, format |-> format, data_width |-> w,
     data_height |-> h, payload |-> payload]

\* The commands over the direct medium without the "more" flag.  Raw pixels:
\* two 1x1 RGBA pixels, half of a pixel, and 14 bytes, which is the capacity
\* of the accumulation buffer of a raw 1x1 RGBA image.
DirectShapes ==
    {Shape(NUL, RGBA, 1, 1, b) : b \in {<<1, 2, 3, 4>>, <<5, 6, 7, 8>>, Rep(9, 14)}}
    \cup {Shape(NUL, RGB, 1, 1, <<1, 2>>)}
    \* deflate: a stream of four bytes, and bytes that are no stream
    \cup {Shape("z", RGBA, 1, 1, b) : b \in {<<120, 1, 2, 3, 4>>, <<1, 2>>}}
    \* PNG: a 1x1 image declared 1x1 or 2x1, and bytes that are no PNG
    \cup {Shape(NUL, PNG, w, 1, <<137, 1, 1, 7>>) : w \in {1, 2}}
    \cup {Shape(NUL, PNG, 1, 1, <<1, 2>>)}
    \* an unknown compression code, an unknown format code (0 is the format
    \* of a command that gives none)
    \cup {Shape("x", RGBA, 1, 1, <<1, 2, 3, 4>>)}
    \cup {Shape(NUL, 0, 1, 1, <<1, 2, 3, 4>>)}

\* the chunks sent with the "more" flag: raw pixels
MoreShapes ==
    {Shape(NUL, RGBA, 1, 1, b) : b \in {<<5, 6, 7, 8>>, Rep(9, 14)}}

\* what the system answers to a command over one of the file media:
\* whether open, lseek and mmap succeed, and the content of the file
Env(open_ok, seek_ok, mmap_ok, file) ==
    [open_ok |-> open_ok, seek_ok |-> seek_ok, mmap_ok |-> mmap_ok,
     file |-> file, stdin_closed |-> FALSE]

NoEnvironment == Env(FALSE, FALSE, FALSE, <<>>)

\* a command over a file medium and the answer of the file system: the
\* medium, what the command says, the answer.  The payload is a file name,
\* whose bytes the model does not read.
FileShapes ==
    {<<"f", Shape(NUL, RGBA, 1, 1, <<>>), e>> :
        e \in {Env(FALSE, FALSE, FALSE, <<>>), Env(TRUE, FALSE, FALSE, <<>>),
               Env(TRUE, TRUE, FALSE, <<>>)}}
    \cup {<<tt, Shape(NUL, RGBA, 1, 1, <<>>),
            Env(TRUE, TRUE, TRUE, <<5, 6, 7, 8>>)>> : tt \in {"f", "t", "s"}}
    \cup {<<"s", Shape(NUL, RGBA, 1, 1, <<>>), Env(FALSE, FALSE, FALSE, <<>>)>>}
    \cup {<<"f", Shape(NUL, RGBA, 2, 1, <<>>),
            Env(TRUE, TRUE, TRUE, <<5, 6, 7, 8>>)>>}
    \cup {<<"f", Shape(NUL, PNG, 1, 1, <<>>),
            Env(TRUE, TRUE, TRUE, <<137, 1, 1, 7>>)>>}
    \cup {<<"f", Shape("z", RGBA, 1, 1, <<>>), Env(TRUE, TRUE, TRUE, c)>> :
             c \in {<<5, 6, 7, 8>>, <<120, 5, 6, 7, 8>>}}
    \cup {<<"f", Shape(NUL, 0, 1, 1, <<>>),
            Env(TRUE, TRUE, TRUE, <<5, 6, 7, 8>>)>>}

Command(action, id, tt, more, shape) ==
    [action |-> action, id |-> id, transmission_type |-> tt,
     compressed |-> shape.compressed, format |-> shape.format,
     data_width |-> shape.data_width, data_height |-> shape.data_height,
     more |-> more, payload_sz |-> Len(shape.payload)]

----------------------------------------------------------------------------
(* The state machine *)

NoTransfer ==
    [id |-> 0, compressed |-> NUL, format |-> 0, data_width |-> 0,
     data_height |-> 0, chunks |-> <<>>, sent |-> 0]

Init ==
    /\ images = InitialState.images
    /\ images_capacity = InitialState.images_capacity
    /\ loading_image = InitialState.loading_image
    /\ internal_id_counter = InitialState.internal_id_counter
    /\ heap = InitialState.heap
    /\ maps = InitialState.maps
    /\ open_fds = InitialState.open_fds
    /\ report = ""
    /\ last = [init_img |-> FALSE, existing |-> FALSE, img |-> 0]
    /\ transfer = NoTransfer

\* one call of grman_handle_command
Handle(g, payload, env) ==
    \E r \in {With(State, LAMBDA p : grman_handle_command(p, g, payload, env))} :
        /\ r.report # "fatal"
        /\ r.internal_id_counter <= MaxInternalId + 1
        /\ images' = r.images
        /\ images_capacity' = r.images_capacity
        /\ loading_image' = r.loading_image
        /\ internal_id_counter' = r.internal_id_counter
        /\ heap' = r.heap
        /\ maps' = r.maps
        /\ open_fds' = r.open_fds
        /\ report' = r.report
        /\ last' = [init_img |-> r.init_img, existing |-> r.existing,
                    img |-> r.img]

\* a transmit command over the direct medium
TransmitDirect ==
    /\ \E id \in ClientIds, shape \in DirectShapes :
          Handle(Command("t", id, "d", FALSE, shape), shape.payload,
                 NoEnvironment)
    /\ UNCHANGED transfer

\* a transmit command over the direct medium that says more data follows
TransmitMore ==
    /\ \E id \in ClientIds, shape \in MoreShapes :
          Handle(Command("t", id, "d", TRUE, shape), shape.payload,
                 NoEnvironment)
    /\ UNCHANGED transfer

\* a transmit command over a file, a temporary file or shared memory
TransmitFile ==
    /\ \E id \in ClientIds, fs \in FileShapes, stdin_closed \in BOOLEAN :
          Handle(Command("t", id, fs[1], FALSE, fs[2]), <<>>,
                 [fs[3] EXCEPT !.stdin_closed = stdin_closed])
    /\ UNCHANGED transfer

\* a command that leaves the action and the medium at their defaults
TransmitDefault ==
    /\ \E id \in ClientIds, more \in BOOLEAN :
          Handle(Command(NUL, id, NUL, more,
                         Shape(NUL, RGBA, 1, 1, <<5, 6, 7, 8>>)),
                 <<5, 6, 7, 8>>, NoEnvironment)
    /\ UNCHANGED transfer

\* a transmit command with a transmission medium the code does not know
UnknownMedium ==
    /\ \E id \in ClientIds, more \in BOOLEAN :
          Handle(Command("t", id, "x", more, Shape(NUL, RGBA, 1, 1, <<>>)),
                 <<>>, NoEnvironment)
    /\ UNCHANGED transfer

\* a command with an action the code does not know
UnknownAction ==
    /\ Handle(Command("q", 0, NUL, FALSE, Shape(NUL, RGBA, 1, 1, <<>>)),
              <<>>, NoEnvironment)
    /\ UNCHANGED transfer

\* a collaborator places or removes a use of a loaded anonymous image (the
\* code reads refcnt of anonymous images only)
SetRefcnt ==
    \E i \in DOMAIN images, n \in 0..MaxRefcnt :
        /\ images[i].data_loaded
        /\ images[i].client_id = 0
        /\ images[i].refcnt # n
        /\ images' = [images EXCEPT ![i].refcnt = n]
        /\ UNCHANGED <<images_capacity, loading_image, internal_id_counter,
                       heap, maps, open_fds, report, last, transfer>>

Next ==
    \/ TransmitDirect
    \/ TransmitMore
    \/ TransmitFile
    \/ TransmitDefault
    \/ UnknownMedium
    \/ UnknownAction
    \/ SetRefcnt

Spec == Init /\ [][Next]_vars

----------------------------------------------------------------------------
(* Chunked transmissions: one payload, cut into two or more chunks, sent   *)
(* to a manager that has just been constructed.                            *)

RECURSIVE Concat(_)
Concat(chunks) ==
    IF chunks = <<>> THEN <<>> ELSE Head(chunks) \o Concat(Tail(chunks))

\* every way to cut bytes into non-empty consecutive chunks
RECURSIVE Cuts(_)
Cuts(bytes) ==
    {<<bytes>>} \cup
    UNION {{<<SubSeq(bytes, 1, k)>> \o rest :
               rest \in Cuts(SubSeq(bytes, k + 1, Len(bytes)))} :
           k \in 1..(Len(bytes) - 1)}

\* the cuts into two or more chunks
Splits(bytes) == {c \in Cuts(bytes) : Len(c) >= 2}

Transfer(id, shape, chunks) ==
    [id |-> id, compressed |-> shape.compressed, format |-> shape.format,
     data_width |-> shape.data_width, data_height |-> shape.data_height,
     chunks |-> chunks, sent |-> 0]

\* a raw 1x1 RGBA pixel, sent as RGBA and as RGB, and a deflate stream of it
Transfers ==
    {Transfer(id, shape, chunks) :
        id \in ClientIds,
        shape \in {Shape(NUL, RGBA, 1, 1, <<1, 2, 3, 4>>),
                   Shape(NUL, RGB, 1, 1, <<1, 2, 3, 4>>)},
        chunks \in Splits(<<1, 2, 3, 4>>)}
    \cup
    {Transfer(id, Shape("z", RGBA, 1, 1, <<120, 1, 2, 3, 4>>), chunks) :
        id \in ClientIds, chunks \in Splits(<<120, 1, 2, 3, 4>>)}

TransferCommand(t, more, payload) ==
    Command("t", t.id, "d", more,
            Shape(t.compressed, t.format, t.data_width, t.data_height, payload))

InitChunks ==
    /\ images = InitialState.images
    /\ images_capacity = InitialState.images_capacity
    /\ loading_image = InitialState.loading_image
    /\ internal_id_counter = InitialState.internal_id_counter
    /\ heap = InitialState.heap
    /\ maps = InitialState.maps
    /\ open_fds = InitialState.open_fds
    /\ report = ""
    /\ last = [init_img |-> FALSE, existing |-> FALSE, img |-> 0]
    /\ transfer \in Transfers

\* the next chunk of the transmission: all chunks but the last say "more"
SendChunk ==
    /\ transfer.sent < Len(transfer.chunks)
    /\ LET k == transfer.sent + 1
       IN  /\ Handle(TransferCommand(transfer, k < Len(transfer.chunks),
                                     transfer.chunks[k]),
                     transfer.chunks[k], NoEnvironment)
           /\ transfer' = [transfer EXCEPT !.sent = k]

NextChunks == SendChunk

SpecChunks == InitChunks /\ [][NextChunks]_vars

\* the state a just constructed manager is in after the whole payload of the
\* transmission, sent as one command without the "more" flag
SentWhole(t) ==
    grman_handle_command(InitialState,
                         TransferCommand(t, FALSE, Concat(t.chunks)),
                         Concat(t.chunks), NoEnvironment)

----------------------------------------------------------------------------
(* Properties *)

\* the store holds a record with this internal id
Has(store, id) == \E i \in DOMAIN store : store[i].internal_id = id

\* the record of the store with this internal id
RecordOf(store, id) ==
    store[CHOOSE i \in DOMAIN store : store[i].internal_id = id]

\* the step is one call of grman_handle_command (and not a collaborator's)
CommandStep == ~SetRefcnt

\* old is a proper prefix of new: new is old followed by further bytes
ProperPrefix(old, new) ==
    /\ old # <<>>
    /\ Len(new) > Len(old)
    /\ SubSeq(new, 1, Len(old)) = old

\* C1: a direct payload sent in two or more chunks (all but the last flagged
\* "more") to a just constructed manager ends with a record that has the same
\* data_loaded and the same accumulated or decoded bytes as the record the
\* whole payload gives when sent in one command
C1_ChunkedEqualsWhole ==
    (Len(transfer.chunks) >= 2 /\ transfer.sent = Len(transfer.chunks)) =>
        \E w \in {SentWhole(transfer)} :
            /\ Has(w.images, w.img)
            /\ Has(images, last.img)
            /\ \E whole \in {RecordOf(w.images, w.img)},
                  chunked \in {RecordOf(images, last.img)} :
                  /\ chunked.data_loaded = whole.data_loaded
                  /\ chunked.load_data.buf_used = whole.load_data.buf_used
                  /\ chunked.load_data.buf_bytes = whole.load_data.buf_bytes
                  /\ (chunked.load_data.data = NULL) =
                         (whole.load_data.data = NULL)

\* C2: loading_image is zero or the internal id of a record in the store
C2_LoadingImageInStore ==
    loading_image = 0 \/ Has(images, loading_image)

\* C3: for every record of the store, load_data.data is non-null exactly
\* when data_loaded is true
C3_DataIffLoaded ==
    \A i \in DOMAIN images :
        (images[i].load_data.data # NULL) = images[i].data_loaded

\* C4: a non-null load_data.data is the record's accumulation buffer, which
\* is allocated, or the record's mapped region, which is mapped
C4_DataIsHeld ==
    \A i \in DOMAIN images :
        LET ld == images[i].load_data
        IN  ld.data # NULL =>
                \/ (ld.data = ld.buf /\ ld.buf \in heap)
                \/ (ld.data = ld.mapped_file /\ ld.mapped_file \in maps)

\* C5: a command that rejects a chunk as oversized ends with loading_image
\* zero, with the target record not loaded, and with the accumulation buffer
\* holding what it held before the chunk (nothing, for a first chunk)
C5_OversizedChunkDropped ==
    [][(CommandStep /\ report' = "Too much data transmitted") =>
          /\ loading_image' = 0
          /\ Has(images', last'.img)
          /\ ~RecordOf(images', last'.img).data_loaded
          /\ RecordOf(images', last'.img).load_data.buf_bytes =
                 IF last'.init_img THEN <<>>
                 ELSE RecordOf(images, last'.img).load_data.buf_bytes
      ]_vars

\* the reports of a command with an unknown action, medium or format
UnknownCodeReports ==
    {"Unknown graphics command action", "Unknown transmission type",
     "Unknown image format"}

\* C6: a command with an unknown action, an unknown transmission medium or
\* an unknown pixel format leaves the records, their number, the capacity
\* and loading_image as they were
C6_UnknownCodeChangesNothing ==
    [][(CommandStep /\ report' \in UnknownCodeReports) =>
          UNCHANGED <<images, images_capacity, loading_image>>
      ]_vars

\* the last command started a new transmission that created an anonymous
\* record, which the store holds
AnonymousCreated(l, store) ==
    /\ l.init_img
    /\ ~l.existing
    /\ Has(store, l.img)
    /\ RecordOf(store, l.img).client_id = 0

\* the step is the second of two consecutive new transmissions with client
\* id 0
SecondAnonymous ==
    /\ CommandStep
    /\ AnonymousCreated(last, images)
    /\ AnonymousCreated(last', images')

\* C7 as the specification states it: after the second of two consecutive
\* anonymous new transmissions the store holds both records, with distinct
\* internal ids, the first as it was
C7_BothAnonymousRecordsKept ==
    [][SecondAnonymous =>
          /\ last'.img # last.img
          /\ Has(images', last.img)
          /\ RecordOf(images', last.img) = RecordOf(images, last.img)
      ]_vars

\* C7: the second of two consecutive anonymous new transmissions gets an
\* internal id of its own and changes no field of the first record; the
\* store still holds the first record exactly when it was loaded and in use
\* (refcnt > 0) when the second command arrived
C7_AnonymousRecordsIndependent ==
    [][SecondAnonymous =>
          /\ last'.img # last.img
          /\ Has(images', last.img) =
                 (RecordOf(images, last.img).data_loaded
                  /\ RecordOf(images, last.img).refcnt > 0)
          /\ Has(images', last.img) =>
                 RecordOf(images', last.img) = RecordOf(images, last.img)
      ]_vars

\* two anonymous records in the store, the second made by the last command
C7_Witness ==
    /\ Len(images) = 2
    /\ \A i \in DOMAIN images : images[i].client_id = 0
    /\ AnonymousCreated(last, images)
    /\ \E i \in DOMAIN images : images[i].internal_id < last.img

\* C8: no two records of the store have the same nonzero client id
C8_ClientIdsUnique ==
    \A i, j \in DOMAIN images :
        (i # j /\ images[i].client_id # 0) =>
            images[i].client_id # images[j].client_id

\* a transmission has reused the client id of a record of the store, which
\* holds another record too
C8_Witness ==
    /\ last.init_img
    /\ last.existing
    /\ Len(images) = 2
    /\ RecordOf(images, last.img).client_id # 0

\* C9: internal ids of the store are nonzero and pairwise distinct; a record
\* that a command creates gets an id that is at least the counter before the
\* command, above every id given out before; the counter never decreases and
\* is above every id of the store; a transmission that restarts a record
\* works on the record that had the client id before, under the same
\* internal id
C9_InternalIds ==
    [][/\ \A i \in DOMAIN images' : images'[i].internal_id # 0
       /\ \A i, j \in DOMAIN images' :
             i # j => images'[i].internal_id # images'[j].internal_id
       /\ internal_id_counter' >= internal_id_counter
       /\ \A i \in DOMAIN images : images[i].internal_id < internal_id_counter
       /\ \A i \in DOMAIN images' :
             /\ images'[i].internal_id < internal_id_counter'
             /\ ~Has(images, images'[i].internal_id) =>
                    images'[i].internal_id >= internal_id_counter
       /\ (CommandStep /\ last'.init_img /\ last'.existing) =>
             /\ Has(images, last'.img)
             /\ Has(images', last'.img)
             /\ RecordOf(images, last'.img).client_id # 0
             /\ RecordOf(images, last'.img).client_id =
                    RecordOf(images', last'.img).client_id
      ]_vars

\* a record was restarted while the store held a second record, both
\* created one after the other
C9_Witness ==
    /\ last.init_img
    /\ last.existing
    /\ Len(images) = 2
    /\ internal_id_counter = 3

\* C10: a new transmission to the client id of a record of the store
\* releases what the record held (buffer, mapping, descriptor); the record
\* is loaded afterwards only if the command reports no error, and its bytes
\* are those of the new payload, not the old bytes followed by new ones
C10_RestartReleasesAndResets ==
    [][(CommandStep /\ last'.init_img /\ last'.existing
          /\ Has(images, last'.img) /\ Has(images', last'.img)) =>
          \E old \in {RecordOf(images, last'.img).load_data},
             new \in {RecordOf(images', last'.img)} :
             /\ old.buf # NULL => old.buf \notin heap'
             /\ old.mapped_file # NULL => old.mapped_file \notin maps'
             /\ old.mapped_file # NULL =>
                    (old.fd \notin open_fds' \/ new.load_data.fd = old.fd)
             /\ report' # "" => ~new.data_loaded
             /\ ~ProperPrefix(old.buf_bytes, new.load_data.buf_bytes)
             /\ new.load_data.buf_used = Len(new.load_data.buf_bytes)
      ]_vars

\* C11: at most one record of the store is not loaded, and a nonzero
\* loading_image that names a record of the store names that record
C11_OneUnfinishedLoad ==
    /\ Cardinality({i \in DOMAIN images : ~images[i].data_loaded}) <= 1
    /\ (loading_image # 0 /\ Has(images, loading_image)) =>
           ~RecordOf(images, loading_image).data_loaded

\* a load is in progress on one record while the store holds a loaded one
C11_Witness ==
    /\ loading_image # 0
    /\ Has(images, loading_image)
    /\ ~RecordOf(images, loading_image).data_loaded
    /\ \E i \in DOMAIN images : images[i].data_loaded

\* the step is a continuation chunk that found the record loading_image names
ContinuationStep ==
    /\ CommandStep
    /\ ~last'.init_img
    /\ last'.img # 0

\* C12: buf_used never exceeds buf_capacity and counts the bytes the buffer
\* holds; a buffer a record holds is allocated; no chunk is copied to a
\* null or released buffer; a continuation chunk finds a record that holds
\* an allocated accumulation buffer and no mapping
C12_ChunksWithinBuffer ==
    [][/\ \A i \in DOMAIN images' :
             \E ld \in {images'[i].load_data} :
                /\ ld.buf_used <= ld.buf_capacity
                /\ ld.buf_used = Len(ld.buf_bytes)
                /\ ld.buf # NULL => ld.buf \in heap'
                /\ ld.buf = NULL => ld.buf_used = 0
       /\ report' # "memcpy outside an allocated buffer"
       /\ ContinuationStep =>
             /\ Has(images, last'.img)
             /\ \E ld \in {RecordOf(images, last'.img).load_data} :
                   /\ ld.buf # NULL
                   /\ ld.buf \in heap
                   /\ ld.mapped_file = NULL
      ]_vars

\* a continuation chunk has been appended to the bytes of the first chunk
C12_Witness ==
    /\ ~last.init_img
    /\ Has(images, last.img)
    /\ RecordOf(images, last.img).load_data.buf_used = 8
    /\ report = ""

\* raw RGBA payloads of exactly width * height * 4 bytes: 1x1, 2x1 and 0x1
ExactRGBA ==
    {Shape(NUL, RGBA, 1, 1, <<1, 2, 3, 4>>),
     Shape(NUL, RGBA, 2, 1, <<1, 2, 3, 4, 5, 6, 7, 8>>),
     Shape(NUL, RGBA, 0, 1, <<>>)}

\* the state after one direct command without "more" that carries shape
AfterDirect(p, id, shape) ==
    grman_handle_command(p, Command("t", id, "d", FALSE, shape),
                         shape.payload, NoEnvironment)

\* r holds a loaded record for the client id with the declared size, whose
\* data is its allocated buffer with the bytes of the payload, and no load
\* is in progress
LoadedVerbatim(r, id, shape) ==
    /\ r.report = ""
    /\ r.loading_image = 0
    /\ Has(r.images, r.img)
    /\ \E rec \in {RecordOf(r.images, r.img)} :
          /\ rec.client_id = id
          /\ rec.data_loaded
          /\ rec.width = shape.data_width
          /\ rec.height = shape.data_height
          /\ rec.load_data.data # NULL
          /\ rec.load_data.data = rec.load_data.buf
          /\ rec.load_data.buf \in r.heap
          /\ rec.load_data.buf_bytes = shape.payload

\* C13: from every reachable state, a direct command without "more", RGBA,
\* no compression, with exactly width * height * 4 bytes, ends (unless
\* malloc fails, which ends the process) with a loaded record of the
\* declared size whose data is the payload, and with loading_image zero
C13_ExactRGBALoads ==
    \A id \in ClientIds, shape \in ExactRGBA :
        \E r \in {AfterDirect(State, id, shape)} :
            r.report = "fatal" \/ LoadedVerbatim(r, id, shape)

\* loading_image names a record the store no longer holds, the store holds
\* a loaded record, and the command of the scenario loads its 8 bytes
C13_Witness ==
    /\ loading_image # 0
    /\ ~Has(images, loading_image)
    /\ \E i \in DOMAIN images : images[i].data_loaded
    /\ LoadedVerbatim(AfterDirect(State, 1,
                         Shape(NUL, RGBA, 2, 1, <<1, 2, 3, 4, 5, 6, 7, 8>>)),
                      1, Shape(NUL, RGBA, 2, 1, <<1, 2, 3, 4, 5, 6, 7, 8>>))

\* raw uncompressed direct payloads: short of, equal to and above the size
\* of the declared image
RawDirectShapes ==
    {Shape(NUL, RGBA, 2, 1, b) : b \in {<<1, 2, 3, 4>>, Rep(5, 7), Rep(5, 8)}}
    \cup {Shape(NUL, RGB, 1, 1, b) : b \in {<<>>, <<1, 2>>, <<1, 2, 3>>}}
    \cup {Shape(NUL, RGBA, 1, 1, b) : b \in {<<1, 2, 3>>, Rep(5, 5)}}

\* raw uncompressed files: short of, equal to and above the declared size
RawFileShapes ==
    {<<tt, Shape(NUL, format, w, 1, <<>>), Env(TRUE, TRUE, TRUE, file)>> :
        tt \in {"f", "t", "s"}, format \in {RGB, RGBA}, w \in {1, 2},
        file \in {<<5, 6>>, <<5, 6, 7>>, <<5, 6, 7, 8>>, Rep(5, 8)}}

\* width * height * bytes per pixel of a raw shape
ExpectedSize(shape) ==
    shape.data_width * shape.data_height * (shape.format \div 8)

\* the bytes a record has acquired: accumulated in its buffer, or mapped
Acquired(rec) ==
    IF rec.load_data.buf # NULL THEN rec.load_data.buf_used
    ELSE rec.load_data.mapped_file_sz

\* after the command the record it worked on, if any, is not loaded when it
\* has acquired fewer than the expected bytes
ShortIsNotLoaded(r, shape) ==
    \/ r.report = "fatal"
    \/ ~Has(r.images, r.img)
    \/ Acquired(RecordOf(r.images, r.img)) >= ExpectedSize(shape)
    \/ ~RecordOf(r.images, r.img).data_loaded

C15_ResourcesHeldOnce ==
    /\ \A fd \in open_fds :
          Cardinality({i \in DOMAIN images : images[i].load_data.fd = fd}) = 1
    /\ \A addr \in maps :
          Cardinality({i \in DOMAIN images :
                          images[i].load_data.mapped_file = addr}) = 1
    /\ \A i \in DOMAIN images :
          /\ images[i].load_data.fd > 0 => images[i].load_data.fd \in open_fds
          /\ images[i].load_data.mapped_file # NULL =>
                 images[i].load_data.mapped_file \in maps

\* the reports of the I/O errors of the file media
IOErrorReports ==
    {"Failed to open file for graphics transmission",
     "Failed to seek in image file", "Failed to map image file"}

\* C16: a file, temporary file or shared memory transmission that fails
\* with an I/O error ends with its record not loaded and holding neither an
\* open descriptor nor a mapping
C16_IOErrorReleases ==
    [][(CommandStep /\ report' \in IOErrorReports) =>
          /\ Has(images', last'.img)
          /\ \E rec \in {RecordOf(images', last'.img)} :
                /\ ~rec.data_loaded
                /\ rec.load_data.mapped_file = NULL
                /\ rec.load_data.fd \notin open_fds'
      ]_vars

----------------------------------------------------------------------------
(* The sweep on its own: remove_images applied to stores of up to MaxStore  *)
(* records.  The records are those the commands leave behind: loaded from   *)
(* the direct medium, with a direct load in progress, loaded from a mapped  *)
(* file, and left by a failed mmap with their descriptor open.              *)

MaxStore == 3

Kinds == {"direct", "progress", "file", "failed"}

PredicateNames == {"add_trim_predicate", "always", "has_client_id", "never"}

\* the descriptors open() hands out one after the other
FdOrder(stdin_closed) == IF stdin_closed THEN <<0, 3, 4>> ELSE <<3, 4, 5>>

\* the record at position pos of a store: kind[pos] says what it holds, its
\* buffer or mapping is at address pos, its descriptor is the next one
StoreRecord(kind, anonymous, refcnt, pos, stdin_closed) ==
    LET nth == Cardinality({k \in 1..pos : kind[k] \in {"file", "failed"}})
        fd == FdOrder(stdin_closed)[nth]
        ld == CASE kind[pos] = "direct" ->
                     [ZeroLoadData EXCEPT !.buf = pos, !.data = pos,
                          !.buf_bytes = <<1, 2, 3, 4>>, !.buf_used = 4,
                          !.buf_capacity = 14, !.data_sz = 4]
                [] kind[pos] = "progress" ->
                     [ZeroLoadData EXCEPT !.buf = pos,
                          !.buf_bytes = <<1, 2>>, !.buf_used = 2,
                          !.buf_capacity = 14, !.data_sz = 4]
                [] kind[pos] = "file" ->
                     [ZeroLoadData EXCEPT !.mapped_file = pos, !.data = pos,
                          !.map_bytes = <<5, 6, 7, 8>>, !.mapped_file_sz = 4,
                          !.fd = fd, !.data_sz = 4]
                [] OTHER ->
                     [ZeroLoadData EXCEPT !.fd = fd, !.data_sz = 4]
    IN  [ZeroImage EXCEPT
            !.client_id = IF anonymous[pos] THEN 0 ELSE pos,
            !.internal_id = pos,
            !.width = 1, !.height = 1,
            !.data_loaded = kind[pos] \in {"direct", "file"},
            !.refcnt = IF anonymous[pos] /\ kind[pos] \in {"direct", "file"}
                       THEN refcnt[pos] ELSE 0,
            !.load_data = ld]

\* a manager whose store holds these records, and the resources they hold
StoreState(kind, anonymous, refcnt, stdin_closed) ==
    LET store == [pos \in DOMAIN kind |->
                     StoreRecord(kind, anonymous, refcnt, pos, stdin_closed)]
        progress == {pos \in DOMAIN kind : kind[pos] = "progress"}
    IN  [InitialState EXCEPT
            !.images = store,
            !.internal_id_counter = Len(store) + 1,
            !.loading_image = IF progress = {} THEN 0 ELSE Min(progress),
            !.heap = {store[i].load_data.buf : i \in DOMAIN store} \ {NULL},
            !.maps = {store[i].load_data.mapped_file : i \in DOMAIN store}
                     \ {NULL},
            !.open_fds = {store[i].load_data.fd :
                             i \in {k \in DOMAIN kind :
                                       kind[k] \in {"file", "failed"}}}]

\* the stores: at most one record is not loaded
StoreStates ==
    UNION {{StoreState(kind, anonymous, refcnt, stdin_closed) :
               kind \in {k \in [1..n -> Kinds] :
                            Cardinality({i \in 1..n :
                                k[i] \in {"progress", "failed"}}) <= 1},
               anonymous \in [1..n -> BOOLEAN],
               refcnt \in [1..n -> 0..1],
               stdin_closed \in BOOLEAN} :
           n \in 0..MaxStore}

InitSweep ==
    \E s \in StoreStates :
        /\ images = s.images
        /\ images_capacity = s.images_capacity
        /\ loading_image = s.loading_image
        /\ internal_id_counter = s.internal_id_counter
        /\ heap = s.heap
        /\ maps = s.maps
        /\ open_fds = s.open_fds
        /\ report = ""
        /\ last = [init_img |-> FALSE, existing |-> FALSE, img |-> 0]
        /\ transfer = NoTransfer

\* remove_images(self, predicate)
Sweep ==
    \E name \in PredicateNames :
        \E r \in {With(State, LAMBDA p : remove_images(p, name))} :
            /\ images' = r.images
            /\ images_capacity' = r.images_capacity
            /\ loading_image' = r.loading_image
            /\ heap' = r.heap
            /\ maps' = r.maps
            /\ open_fds' = r.open_fds
            /\ UNCHANGED <<internal_id_counter, report, last, transfer>>

NextSweep == Sweep

SpecSweep == InitSweep /\ [][NextSweep]_vars

\* the records of the store the predicate does not hold of, in their order
RECURSIVE Survivors(_, _)
Survivors(store, name) ==
    IF store = <<>> THEN <<>>
    ELSE (IF predicate(name, Head(store)) THEN <<>> ELSE <<Head(store)>>)
         \o Survivors(Tail(store), name)

\* the descriptor a record holds: a record with a mapping, or without a
\* buffer, whose descriptor is open
HeldFds(rec, open) ==
    IF rec.load_data.buf = NULL /\ rec.load_data.fd \in open
    THEN {rec.load_data.fd} ELSE {}

\* what the sweep with this predicate must do to the state p to give r
Swept(p, r, name) ==
    LET removed == {i \in DOMAIN p.images : predicate(name, p.images[i])}
    IN  /\ r.images = Survivors(p.images, name)
        /\ Len(r.images) = Len(p.images) - Cardinality(removed)
        /\ r.heap = p.heap \ {p.images[i].load_data.buf : i \in removed}
        /\ r.maps = p.maps \ {p.images[i].load_data.mapped_file : i \in removed}
        /\ r.open_fds = p.open_fds \
               UNION {HeldFds(p.images[i], p.open_fds) : i \in removed}
        /\ \A i \in DOMAIN r.images :
              \E ld \in {r.images[i].load_data} :
                 /\ ld.buf # NULL => ld.buf \in r.heap
                 /\ ld.mapped_file # NULL => ld.mapped_file \in r.maps
                 /\ HeldFds(r.images[i], p.open_fds) \subseteq r.open_fds
        /\ r.images_capacity = p.images_capacity
        /\ name = "add_trim_predicate" =>
              \A i \in DOMAIN p.images :
                 (~p.images[i].data_loaded
                  \/ (p.images[i].client_id = 0 /\ p.images[i].refcnt = 0))
                 => ~Has(r.images, p.images[i].internal_id)

\* C17: for every store and every predicate, remove_images leaves exactly
\* the records the predicate does not hold of, in their order, releases
\* the buffer, the mapping and the descriptor of every removed record and
\* of no other; with add_trim_predicate every record that is not loaded or
\* is anonymous with refcnt 0 is removed
C17_SweepRemovesAndReleases ==
    \A name \in PredicateNames :
        Swept(State, remove_images(State, name), name)

\* PNG commands: a stream of a 1x1 image declared 1x1, 2x1 and 1x2, and a
\* stream of a 2x1 image declared 1x1
PNGShapes ==
    {Shape(NUL, PNG, w, h, <<137, 1, 1, 7>>) :
        w \in {1, 2}, h \in {1, 2}}
    \cup {Shape(NUL, PNG, 1, 1, <<137, 2, 1, 7>>)}

\* C18: from every reachable state, a PNG command whose stream decodes ends
\* (unless malloc fails) with its record loaded, with the width and height
\* of the stream, whatever width and height the command declares
C18_PNGDimensionsFromCodec ==
    \A id \in ClientIds, shape \in PNGShapes :
        \E r \in {AfterDirect(State, id, shape)},
           png \in {png_read(shape.payload)} :
            \/ r.report = "fatal"
            \/ /\ Has(r.images, r.img)
               /\ RecordOf(r.images, r.img).data_loaded
               /\ RecordOf(r.images, r.img).width = png.width
               /\ RecordOf(r.images, r.img).height = png.height

----------------------------------------------------------------------------
(* find_or_create_image on its own, on stores that are full or one short   *)
(* of full, so that the append makes the array grow.                       *)

\* how many of the first records of these stores may be anonymous
MaxAnonymous == 4

\* the stores: InitialCapacity - 1 or InitialCapacity loaded records, in use
FullStoreStates ==
    {StoreState([pos \in 1..n |-> "direct"],
                [pos \in 1..n |-> pos \in anonymous],
                [pos \in 1..n |-> 1], FALSE) :
        n \in {InitialCapacity - 1, InitialCapacity},
        anonymous \in SUBSET (1..MaxAnonymous)}

\* the client ids asked for: none, the one of the second record, a new one
CreateIds == {0, 2, 2 * InitialCapacity}

\* what the allocator may have left in the memory realloc returns: zeroes,
\* or the bytes of a record that was loaded and in use
Garbage ==
    {ZeroImage,
     [ZeroImage EXCEPT !.data_loaded = TRUE],
     [ZeroImage EXCEPT !.refcnt = 1, !.client_id = 2],
     [ZeroImage EXCEPT !.load_data.buf = 1, !.load_data.data = 1,
                       !.load_data.buf_capacity = 14]}

InitGrow ==
    \E s \in FullStoreStates :
        /\ images = s.images
        /\ images_capacity = s.images_capacity
        /\ loading_image = s.loading_image
        /\ internal_id_counter = s.internal_id_counter
        /\ heap = s.heap
        /\ maps = s.maps
        /\ open_fds = s.open_fds
        /\ report = ""
        /\ last = [init_img |-> FALSE, existing |-> FALSE, img |-> 0]
        /\ transfer = NoTransfer

\* find_or_create_image(self, id, &existing), until the array has grown once
FindOrCreate ==
    /\ Len(images) <= InitialCapacity
    /\ \E id \in CreateIds, moved \in BOOLEAN, garbage \in Garbage :
          \E r \in {With(State, LAMBDA p :
                            find_or_create_image_in(p, id, moved, garbage))} :
              /\ images' = r.p.images
              /\ images_capacity' = r.p.images_capacity
              /\ report' = r.p.report
              /\ last' = [init_img |-> FALSE, existing |-> r.existing,
                          img |-> 0]
              /\ UNCHANGED <<loading_image, internal_id_counter, heap, maps,
                             open_fds, transfer>>

NextGrow == FindOrCreate

SpecGrow == InitGrow /\ [][NextGrow]_vars

\* C19: a record find_or_create_image returns as new is all zero, also when
\* the append makes the array grow: then the capacity doubles, the records
\* of the store are kept, the count stays within the capacity, and the
\* memset zeroes the new slots of the array in use
C19_NewRecordIsZero ==
    \A id \in CreateIds, moved \in BOOLEAN, garbage \in Garbage :
        \E r \in {find_or_create_image_in(State, id, moved, garbage)} :
            ~r.existing =>
                /\ r.idx = Len(images) + 1
                /\ r.p.images[r.idx] = ZeroImage
                /\ SubSeq(r.p.images, 1, Len(images)) = images
                /\ Len(r.p.images) <= r.p.images_capacity
                /\ r.p.images_capacity =
                       IF Len(images) < images_capacity
                       THEN images_capacity ELSE 2 * images_capacity
                /\ r.p.report # "memset outside an allocated block"

----------------------------------------------------------------------------
(* grman_realloc with an old manager, and the grman_free it ends with *)

\* what the build makes of free_image(self->images + i) with self->images
\* NULL, which is undefined: the read through the null pointer faults, or
\* the compiler has taken the loop for unreachable and dropped it
NullLoopOutcomes == {"fault", "elided"}

\* grman_free(old) after grman_realloc has set old->images = NULL and left
\* old->image_count as it was: self is the state of the new manager
grman_free_emptied(self, image_count, outcome) ==
    IF image_count = 0 \/ outcome = "elided" THEN self
    ELSE [self EXCEPT !.report = "null pointer dereference"]

\* grman_realloc(old, lines, columns) with old # NULL: tp_alloc gives a
\* zeroed manager, which takes images_capacity, images and image_count of
\* the old one; no other field is copied
grman_realloc(old, outcome) ==
    grman_free_emptied([old EXCEPT !.loading_image = 0],
                       Len(old.images), outcome)

\* the manager is re-created from itself
Realloc ==
    \E outcome \in NullLoopOutcomes :
        \E r \in {With(State, LAMBDA p : grman_realloc(p, outcome))} :
            /\ images' = r.images
            /\ images_capacity' = r.images_capacity
            /\ loading_image' = r.loading_image
            /\ heap' = r.heap
            /\ maps' = r.maps
            /\ open_fds' = r.open_fds
            /\ report' = r.report
            /\ UNCHANGED <<internal_id_counter, last, transfer>>

NextRealloc == Realloc

SpecRealloc == InitSweep /\ [][NextRealloc]_vars

\* C20: grman_realloc with an old manager gives a manager with the same
\* records in the same order, the same capacity and the same loading_image,
\* releases no buffer, mapping or descriptor of the records, and does not
\* touch the array the old manager has handed over
C20_ReallocCarriesStoreOver ==
    \A outcome \in NullLoopOutcomes :
        \E r \in {grman_realloc(State, outcome)} :
            /\ r.images = images
            /\ r.images_capacity = images_capacity
            /\ r.loading_image = loading_image
            /\ r.heap = heap
            /\ r.maps = maps
            /\ r.open_fds = open_fds
            /\ r.report # "null pointer dereference"

====
